---- MODULE Spec2Model ----
(***************************************************************************)
(* Model of src/script.js.  The project-modal controller (the second       *)
(* DOMContentLoaded listener, lines 268-470): the overlay's aria-hidden    *)
(* flag, the content rendered into it, and the browser's session history   *)
(* that openFromCard / closeModal push to and that popstate replays.  The  *)
(* rest of the page (lines 1-266): the first DOMContentLoaded listener,    *)
(* the navigation buttons, the category filter with its hide timers, the   *)
(* first-flag-only rule and the resize debounce.                           *)
(*                                                                         *)
(* Representation.                                                         *)
(*  - A query string is the list of values of its `project` parameter:     *)
(*    <<>> when the parameter is absent, <<v>> when it is present with     *)
(*    value v (v may be the empty string, as in "?project=").              *)
(*  - A history state payload is <<"null">> (the entry the page was loaded *)
(*    on), <<>> for {} and <<"project", id>> for {project: id}.            *)
(*  - data-id is <<>> when the card has no such attribute and <<v>> when   *)
(*    it has it with value v.  For the other attributes a missing one and  *)
(*    an empty one are both "": the source reads them only through         *)
(*    `getAttribute(..) || ..`, which treats the two alike.                *)
(*  - data-tools is a sequence of one-character strings, so that split,    *)
(*    trim and toLowerCase are computed and not assumed.                   *)
(***************************************************************************)
EXTENDS Integers, Sequences, FiniteSets, TLC

\* ------------------------------------------------------------------ bounds
\* Longest session history explored (pushState is disabled beyond it).
MaxHist == 4
\* Number of past handler runs remembered in `log`.
MaxLog == 4
\* Longest data-tools list (in entries) drawn by the badge specification.
MaxTools == 3
\* Number of navigation, chip and resize events explored by the page
\* specification.
MaxEvents == 3
\* Number of resize events explored by the resize specification.
MaxResize == 4

\* ----------------------------------------------------------- string helpers
\* The characters String.prototype.trim removes that occur in the model.
IsSpace(ch) == ch \in {" ", "\t"}

\* String.prototype.toLowerCase on one character.
LowerChar(ch) ==
    CASE ch = "A" -> "a" [] ch = "B" -> "b" [] ch = "D" -> "d"
      [] ch = "E" -> "e" [] ch = "F" -> "f" [] ch = "G" -> "g"
      [] ch = "I" -> "i" [] ch = "L" -> "l" [] ch = "M" -> "m"
      [] ch = "N" -> "n" [] ch = "P" -> "p" [] ch = "R" -> "r"
      [] ch = "S" -> "s" [] ch = "X" -> "x"
      [] OTHER -> ch

\* String.prototype.toLowerCase.
ToLowerCase(s) == [i \in 1..Len(s) |-> LowerChar(s[i])]

RECURSIVE TrimStart(_)
TrimStart(s) ==
    IF s # <<>> /\ IsSpace(Head(s)) THEN TrimStart(Tail(s)) ELSE s

RECURSIVE TrimEnd(_)
TrimEnd(s) ==
    IF s # <<>> /\ IsSpace(s[Len(s)]) THEN TrimEnd(SubSeq(s, 1, Len(s) - 1)) ELSE s

\* String.prototype.trim.
Trim(s) == TrimEnd(TrimStart(s))

\* String.prototype.split(','): the pieces between the commas; the empty
\* string splits into one empty piece.
RECURSIVE SplitFrom(_, _, _)
SplitFrom(s, i, cur) ==
    IF i > Len(s) THEN <<cur>>
    ELSE IF s[i] = "," THEN <<cur>> \o SplitFrom(s, i + 1, <<>>)
    ELSE SplitFrom(s, i + 1, Append(cur, s[i]))

SplitComma(s) == SplitFrom(s, 1, <<>>)

\* Array.prototype.filter(t => t): drops the empty strings.
RECURSIVE FilterNonEmpty(_)
FilterNonEmpty(ts) ==
    IF ts = <<>> THEN <<>>
    ELSE IF Head(ts) = <<>> THEN FilterNonEmpty(Tail(ts))
    ELSE <<Head(ts)>> \o FilterNonEmpty(Tail(ts))

\* toolsAttr.split(',').map(t => t.trim()).filter(t => t)
ParseTools(toolsAttr) ==
    LET parts == SplitComma(toolsAttr)
    IN  FilterNonEmpty([i \in 1..Len(parts) |-> Trim(parts[i])])

\* --------------------------------------------------------------- tool table
ToolKeys ==
    { <<"p","s">>, <<"a","i">>, <<"b","l","e","n","d","e","r">>,
      <<"f","i","g","m","a">>, <<"p","r">> }

\* toolConfig[key] for a key of the table.
toolConfig(key) ==
    CASE key = <<"p","s">> ->
            [class |-> "bubble-PS", ariaLabel |-> "Photoshop", label |-> "PS", isImage |-> FALSE]
      [] key = <<"a","i">> ->
            [class |-> "bubble-AI", ariaLabel |-> "Illustrator", label |-> "AI", isImage |-> FALSE]
      [] key = <<"b","l","e","n","d","e","r">> ->
            [class |-> "bubble-blender", ariaLabel |-> "Blender", label |-> "", isImage |-> TRUE]
      [] key = <<"f","i","g","m","a">> ->
            [class |-> "bubble-figma", ariaLabel |-> "Figma", label |-> "", isImage |-> TRUE]
      [] key = <<"p","r">> ->
            [class |-> "bubble-PR", ariaLabel |-> "Premiere Pro", label |-> "PR", isImage |-> FALSE]

\* NormalizeKey without the toLowerCase().
NormalizeKey_NoLower(toolKey) == Trim(toolKey)

\* toolKey.toLowerCase().trim()
NormalizeKey(toolKey) == Trim(ToLowerCase(toolKey))

\* The bubble element built for one recognised tool: its class and
\* aria-label, and its inner span's role, aria-label and text.
Bubble(config) ==
    [ class     |-> config.class,
      ariaLabel |-> config.ariaLabel,
      spanRole  |-> IF config.isImage THEN "img" ELSE "",
      spanLabel |-> IF config.isImage THEN config.ariaLabel ELSE "",
      spanText  |-> IF config.isImage THEN "" ELSE config.label ]

\* The children of .modal-flags after renderBubbles(tools): the container is
\* cleared, then one bubble is appended per recognised key, in order.
RECURSIVE RenderBubbles(_)
RenderBubbles(tools) ==
    IF tools = <<>> THEN <<>>
    ELSE LET normalizedKey == NormalizeKey(Head(tools))
         IN  IF normalizedKey \in ToolKeys
             THEN <<Bubble(toolConfig(normalizedKey))>> \o RenderBubbles(Tail(tools))
             ELSE RenderBubbles(Tail(tools))

\* -------------------------------------------------------------------- cards
\* The .card elements, in document order.
CardOrder == <<"c1", "c2", "c3">>
Cards == {CardOrder[i] : i \in 1..Len(CardOrder)}

\* Array.prototype.join(','), used to write a data-tools attribute from
\* its entries.
RECURSIVE Join(_)
Join(entries) ==
    IF entries = <<>> THEN <<>>
    ELSE IF Len(entries) = 1 THEN Head(entries)
    ELSE Head(entries) \o <<",">> \o Join(Tail(entries))

\* A .card element: data-id, data-title, data-img, the src of the nested
\* <img>, and data-tools, which is its entries joined by commas.
Card(id, title, img, inner, entries) ==
    [ dataId |-> id, dataTitle |-> title, dataImg |-> img, innerSrc |-> inner,
      dataTools |-> Join(entries), toolEntries |-> entries ]

\* The page's cards.  c2 has no title and no image of its own; c3 has no
\* data-id and no data-tools.
PageCards ==
    [ c1 |-> Card(<<"alpha">>, "Alpha", "alpha.png", "alpha-thumb.png",
                  << <<"P","S">>, <<" ","a","i">> >>),
      c2 |-> Card(<<"beta">>, "", "", "",
                  << <<" ","F","i","g","m","a">>, <<"x","x">>, <<>>,
                     <<"P","S">>, <<"p","s"," ">> >>),
      c3 |-> Card(<<>>, "Gamma", "", "gamma-thumb.png", <<>>) ]

\* The entries a data-tools list is drawn from by the badge specification.
ToolEntries ==
    { <<"P","S">>, <<" ","p","s","\t">>, <<"A","i">>, <<"f","i","g","m","a">>,
      <<"B","l","e","n","d","e","r"," ">>, <<"p","r">>, <<"x","x">>,
      <<"p"," ","s">>, <<" ">>, <<>> }

\* The data-tools lists of at most n entries.
RECURSIVE ToolLists(_)
ToolLists(n) ==
    IF n = 0 THEN { <<>> }
    ELSE LET shorter == ToolLists(n - 1)
         IN  shorter \cup { Append(l, e) : l \in {x \in shorter : Len(x) = n - 1},
                                           e \in ToolEntries }

\* The query strings the page may be loaded with: no project parameter, the
\* id of a card, an id no card has, and an empty value.
LoadSearches == { <<>>, <<"alpha">>, <<"zeta">>, <<"">> }

\* -------------------------------------------------------------------- state
VARIABLES
    cards,        \* the attributes of every .card element
    hist,         \* the session history: entries [state, search]
    pos,          \* index of the current entry; window.location is hist[pos]
    ariaHidden,   \* #project-modal's aria-hidden attribute
    overflow,     \* document.body.style.overflow
    titleText,    \* .modal-title textContent
    imgSrc,       \* .project-image src
    imgAlt,       \* .project-image alt
    bubbles,      \* children of .modal-flags
    pc,           \* "start", "load" once the first DOMContentLoaded listener ran, then
                  \* "ready" (controller listening) or "idle" (no #project-modal)
    log,          \* the last MaxLog handler runs that did something: [op, card, pos0]
    hist0,        \* the session history when the last of them started
    pos0,         \* the current index when the last of them started
    hasModal,     \* the page has a #project-modal element
    boot,         \* the first DOMContentLoaded listener: steps run, and whether it raised
    navAttrs,     \* data-active and aria-current of every .nav-btn, by group
    lastNav,      \* the button last clicked in each group, "none" before any click
    chipAttrs,    \* class `active` and aria-pressed of every .chip
    category,     \* the category of the last chip click, "none" before any click
    view,         \* display, class `hidden`, opacity and transform of every card
    hideQueue,    \* the cards of the pending 200ms hide timers, oldest first
    frames,       \* the cards with a pending animation-frame callback of showCard
    flags,        \* class flag-hidden, aria-hidden and tabindex of every card's flags
    resizeTimeout,\* window.resizeTimeout: a timer id, 0 while undefined
    timers,       \* the ids of the pending resize timers
    nextTimer,    \* the id the next setTimeout returns
    columnCount,  \* .masonry-container's inline column-count
    reflowFrames, \* pending animation-frame callbacks of the reflow
    reflows,      \* number of times the resize timer's callback ran
    burst,        \* number of resize events since a resize timer last expired
    events        \* number of navigation, chip and resize events so far

modalVars == <<hist, pos, ariaHidden, overflow, titleText, imgSrc, imgAlt,
               bubbles, log, hist0, pos0>>

navVars == <<navAttrs, lastNav>>

filterVars == <<chipAttrs, category, view, hideQueue, frames>>

resizeVars == <<resizeTimeout, timers, nextTimer, columnCount, reflowFrames,
                reflows, burst>>

pageVars == <<navVars, filterVars, flags, resizeVars, events>>

vars == <<cards, pc, hasModal, boot, modalVars, pageVars>>

dom == <<ariaHidden, overflow, titleText, imgSrc, imgAlt, bubbles>>

NoCard == "none"

\* window.location.search of the current entry.
Search(h, p) == h[p].search

\* --------------------------------------------------- what openFromCard reads
\* card.getAttribute('data-id') || ''
IdOf(card) == IF cards[card].dataId = <<>> THEN "" ELSE cards[card].dataId[1]

\* card.getAttribute('data-title') || 'Project'
TitleOf(card) == IF cards[card].dataTitle = "" THEN "Project" ELSE cards[card].dataTitle

\* The placeholder https://picsum.photos/seed/<id || 'long'>/900/3000.
Placeholder(id) ==
    <<"https://picsum.photos/seed/", IF id = "" THEN "long" ELSE id, "/900/3000">>

\* img || placeholder, with img = data-img || nested <img>.src || ''
ImageOf(card) ==
    LET img == IF cards[card].dataImg # "" THEN cards[card].dataImg
               ELSE cards[card].innerSrc
    IN  IF img # "" THEN <<img>> ELSE Placeholder(IdOf(card))

\* The badges openFromCard renders for the card.
BubblesOf(card) == RenderBubbles(ParseTools(cards[card].dataTools))

\* ProjectSearch without the `|| 'p'`.
ProjectSearch_Raw(id) == << id >>

\* url.searchParams.set('project', id || 'p') on the current URL.
ProjectSearch(id) == << IF id = "" THEN "p" ELSE id >>

\* ------------------------------------------------------------------ history
\* history.replaceState in place of pushState.
PushState_Replace(h, p, state, search) ==
    /\ hist' = [h EXCEPT ![p] = [state |-> state, search |-> search]]
    /\ pos' = p

\* history.pushState(state, '', url) with h, p the history it is called on:
\* the entries after the current one are dropped and the new one is appended.
PushState(h, p, state, search) ==
    /\ hist' = Append(SubSeq(h, 1, p), [state |-> state, search |-> search])
    /\ pos' = p + 1

\* The log after one more handler run.
Logged(op, card) ==
    LET l == Append(log, [op |-> op, card |-> card, pos0 |-> pos])
    IN  IF Len(l) > MaxLog THEN Tail(l) ELSE l

Remember(op, card) ==
    /\ log' = Logged(op, card)
    /\ hist0' = hist
    /\ pos0' = pos

\* ----------------------------------------------------------------- handlers
\* openFromCard recording `id || 'p'` in the state payload too.
openFromCard_StateP(card, pushHistory, h, p) ==
    /\ titleText' = TitleOf(card)
    /\ imgSrc' = ImageOf(card)
    /\ imgAlt' = TitleOf(card)
    /\ bubbles' = BubblesOf(card)
    /\ ariaHidden' = "false"
    /\ overflow' = "hidden"
    /\ IF pushHistory
       THEN PushState(h, p, <<"project", ProjectSearch(IdOf(card))[1]>>, ProjectSearch(IdOf(card)))
       ELSE hist' = h /\ pos' = p

\* openFromCard with a renderBubbles that does not empty the container first.
openFromCard_KeepsBubbles(card, pushHistory, h, p) ==
    /\ titleText' = TitleOf(card)
    /\ imgSrc' = ImageOf(card)
    /\ imgAlt' = TitleOf(card)
    /\ bubbles' = bubbles \o BubblesOf(card)
    /\ ariaHidden' = "false"
    /\ overflow' = "hidden"
    /\ IF pushHistory
       THEN PushState(h, p, <<"project", IdOf(card)>>, ProjectSearch(IdOf(card)))
       ELSE hist' = h /\ pos' = p

\* openFromCard(card, pushHistory), run on history h at index p.
openFromCard(card, pushHistory, h, p) ==
    /\ titleText' = TitleOf(card)
    /\ imgSrc' = ImageOf(card)
    /\ imgAlt' = TitleOf(card)
    /\ bubbles' = BubblesOf(card)
    /\ ariaHidden' = "false"
    /\ overflow' = "hidden"
    /\ IF pushHistory
       THEN PushState(h, p, <<"project", IdOf(card)>>, ProjectSearch(IdOf(card)))
       ELSE hist' = h /\ pos' = p

\* closeModal leaving document.body.style.overflow as it is.
closeModal_KeepsScrollLock(fromHistory, h, p) ==
    /\ ariaHidden' = "true"
    /\ UNCHANGED <<overflow, titleText, imgSrc, imgAlt, bubbles>>
    /\ IF ~fromHistory
       THEN PushState(h, p, <<>>, <<>>)
       ELSE hist' = h /\ pos' = p

\* closeModal without the searchParams.delete('project').
closeModal_KeepsUrl(fromHistory, h, p) ==
    /\ ariaHidden' = "true"
    /\ overflow' = ""
    /\ UNCHANGED <<titleText, imgSrc, imgAlt, bubbles>>
    /\ IF ~fromHistory
       THEN PushState(h, p, <<>>, Search(h, p))
       ELSE hist' = h /\ pos' = p

\* closeModal(fromHistory), run on history h at index p.
closeModal(fromHistory, h, p) ==
    /\ ariaHidden' = "true"
    /\ overflow' = ""
    /\ UNCHANGED <<titleText, imgSrc, imgAlt, bubbles>>
    /\ IF ~fromHistory
       THEN PushState(h, p, <<>>, <<>>)
       ELSE hist' = h /\ pos' = p

\* document.querySelector(`.card[data-id="${CSS.escape(id)}"]`): the first
\* card in document order whose data-id is id, or NoCard.
RECURSIVE FirstCardFrom(_, _)
FirstCardFrom(i, id) ==
    IF i > Len(CardOrder) THEN NoCard
    ELSE IF cards[CardOrder[i]].dataId = <<id>> THEN CardOrder[i]
    ELSE FirstCardFrom(i + 1, id)

\* querySelector('.card') when no data-id matches.
QueryCard_Fallback(id) ==
    IF FirstCardFrom(1, id) = NoCard THEN CardOrder[1] ELSE FirstCardFrom(1, id)

QueryCard(id) == FirstCardFrom(1, id)

\* The card openFromUrl opens on the given query string, or NoCard when it
\* returns false: the parameter is absent or empty, or no card matches.
UrlCard(search) ==
    IF search = <<>> THEN NoCard
    ELSE IF search[1] = "" THEN NoCard
    ELSE QueryCard(search[1])

\* The value openFromUrl returns.
openFromUrlResult(search) == UrlCard(search) # NoCard

\* openFromUrl passing pushHistory = true whatever `push` is.
openFromUrl_AlwaysPush(push, h, p) ==
    IF openFromUrlResult(Search(h, p))
    THEN openFromCard(UrlCard(Search(h, p)), TRUE, h, p)
    ELSE UNCHANGED dom /\ hist' = h /\ pos' = p

\* openFromUrl closing the overlay when it finds no card.
openFromUrl_ClosesOnMiss(push, h, p) ==
    IF openFromUrlResult(Search(h, p))
    THEN openFromCard(UrlCard(Search(h, p)), push, h, p)
    ELSE closeModal(TRUE, h, p)

\* openFromUrl(push), run on history h at index p.
openFromUrl(push, h, p) ==
    IF openFromUrlResult(Search(h, p))
    THEN openFromCard(UrlCard(Search(h, p)), push, h, p)
    ELSE UNCHANGED dom /\ hist' = h /\ pos' = p

\* The popstate listener without its close branch.
onPopstate_NoClose(h, p) ==
    LET has == Search(h, p) # <<>>
    IN  IF ~has
        THEN UNCHANGED dom /\ hist' = h /\ pos' = p
        ELSE openFromUrl(FALSE, h, p)

\* The popstate listener closing with fromHistory = false.
onPopstate_Push(h, p) ==
    LET has == Search(h, p) # <<>>
    IN  IF ~has
        THEN IF ariaHidden = "false"
             THEN closeModal(FALSE, h, p)
             ELSE UNCHANGED dom /\ hist' = h /\ pos' = p
        ELSE openFromUrl(FALSE, h, p)

\* The popstate listener, run once the browser has moved to index p.
onPopstate(h, p) ==
    LET has == Search(h, p) # <<>>
    IN  IF ~has
        THEN IF ariaHidden = "false"
             THEN closeModal(TRUE, h, p)
             ELSE UNCHANGED dom /\ hist' = h /\ pos' = p
        ELSE openFromUrl(FALSE, h, p)

\* ------------------------------------------------------- first-flag-only
\* applyFirstFlagOnly on one card's flags: the first is shown, the others
\* are hidden; a card without flags is left alone.
FirstFlagOnly(fs) ==
    [i \in 1..Len(fs) |->
        IF i = 1
        THEN [flagHidden |-> FALSE, ariaHidden |-> "", tabindex |-> "0"]
        ELSE [flagHidden |-> TRUE, ariaHidden |-> "true", tabindex |-> "-1"]]

\* applyFirstFlagOnly (lines 242-266).
applyFirstFlagOnly(fl) == [c \in Cards |-> FirstFlagOnly(fl[c])]

\* ------------------------------------------------------------------ actions
\* The calls of the first DOMContentLoaded listener (lines 4-19), in order.
InitSteps ==
    << "initializeNavigation", "initializeCategoryFiltering",
       "initializeCardOverlays", "initializeProjectModal",
       "handleDeepLinking", "initializeCardFlagDisplay" >>

\* The functions script.js declares.
DeclaredFunctions ==
    { "initializeNavigation", "handleNavClick", "initializeCategoryFiltering",
      "handleCategoryFilter", "filterCards", "showCard", "hideCard",
      "scrollToContact", "initializeCardFlagDisplay", "applyFirstFlagOnly" }

\* The steps the listener completes from step i on: calling an undeclared
\* function throws a ReferenceError, which ends the listener.
RECURSIVE StepsRunFrom(_)
StepsRunFrom(i) ==
    IF i > Len(InitSteps) THEN <<>>
    ELSE IF InitSteps[i] \notin DeclaredFunctions THEN <<>>
    ELSE <<InitSteps[i]>> \o StepsRunFrom(i + 1)

\* The step has run: its listeners are registered.
HasRun(step) == \E i \in 1..Len(boot.ran) : boot.ran[i] = step

\* The first DOMContentLoaded listener (lines 2-20).
Boot ==
    /\ pc = "start"
    /\ pc' = "load"
    /\ LET ran == StepsRunFrom(1)
       IN  /\ boot' = [ran |-> ran, raised |-> Len(ran) < Len(InitSteps)]
           /\ flags' = IF \E i \in 1..Len(ran) : ran[i] = "initializeCardFlagDisplay"
                       THEN applyFirstFlagOnly(flags)
                       ELSE flags
    /\ UNCHANGED <<cards, hasModal, modalVars, navVars, filterVars, resizeVars, events>>

\* The controller going on without #project-modal.
ModalFound_Always == TRUE

\* document.getElementById('project-modal') is not null (lines 269-270).
ModalFound == hasModal

\* The controller's listeners are registered.
Listening == pc = "ready"

\* Both DOMContentLoaded listeners have run.
Loaded == pc \in {"ready", "idle"}

\* No listener of the controller runs.
Idle == UNCHANGED <<dom, hist, pos, log, hist0, pos0>>

\* The second DOMContentLoaded listener (lines 268-470): without
\* #project-modal it returns at once; otherwise it registers the
\* controller's listeners and calls openFromUrl(false) (line 442).
Load ==
    /\ pc = "load"
    /\ IF ModalFound
       THEN /\ pc' = "ready"
            /\ openFromUrl(FALSE, hist, pos)
            /\ Remember("load", NoCard)
       ELSE /\ pc' = "idle"
            /\ Idle
    /\ UNCHANGED <<cards, hasModal, boot, pageVars>>

\* A click inside a card (lines 398-410).
CardClick(card) ==
    /\ Loaded
    /\ pos < MaxHist
    /\ IF Listening
       THEN openFromCard(card, TRUE, hist, pos) /\ Remember("open", card)
       ELSE Idle
    /\ UNCHANGED <<cards, pc, hasModal, boot, pageVars>>

\* Enter or Space while a card is the active element (lines 413-418).  Any
\* card can be the active element: nothing in the source traps the focus.
CardKey(card) ==
    /\ Loaded
    /\ pos < MaxHist
    /\ IF Listening
       THEN openFromCard(card, TRUE, hist, pos) /\ Remember("open", card)
       ELSE Idle
    /\ UNCHANGED <<cards, pc, hasModal, boot, pageVars>>

\* The history after the history.pushState({}, '', url) of closeModal
\* (lines 390-394) on history h at index p.
ClosedHistory(h, p) == Append(SubSeq(h, 1, p), [state |-> <<>>, search |-> <<>>])

\* A click that runs closeModal() in the listener of its target and then, by
\* bubbling, in the listener of .modal-content (lines 421-422, 457-468):
\* no listener stops the propagation, and the target is neither in
\* .project-figure nor in .modal-contact-inner.  Two handler runs.
BubbledClose ==
    /\ closeModal(FALSE, ClosedHistory(hist, pos), pos + 1)
    /\ log' = LET l == Append(Logged("close", NoCard),
                             [op |-> "close", card |-> NoCard, pos0 |-> pos + 1])
              IN  IF Len(l) > MaxLog THEN Tail(l) ELSE l
    /\ hist0' = ClosedHistory(hist, pos)
    /\ pos0' = pos + 1

\* A click on .modal-backdrop (line 421); inContent tells whether the page's
\* markup places the element inside .modal-content.
BackdropClick(inContent) ==
    /\ Listening
    /\ pos < MaxHist
    /\ IF inContent
       THEN pos + 1 < MaxHist /\ BubbledClose
       ELSE closeModal(FALSE, hist, pos) /\ Remember("close", NoCard)
    /\ UNCHANGED <<cards, pc, hasModal, boot, pageVars>>

\* A click on .modal-close (line 422); inContent as for the backdrop.
CloseBtnClick(inContent) ==
    /\ Listening
    /\ pos < MaxHist
    /\ IF inContent
       THEN pos + 1 < MaxHist /\ BubbledClose
       ELSE closeModal(FALSE, hist, pos) /\ Remember("close", NoCard)
    /\ UNCHANGED <<cards, pc, hasModal, boot, pageVars>>

\* A click inside .modal-content (lines 455-469); inside tells whether the
\* target lies in .project-figure or .modal-contact-inner, in which case the
\* handler does nothing.
ContentClick(inside) ==
    /\ Listening
    /\ pos < MaxHist
    /\ IF ~inside
       THEN closeModal(FALSE, hist, pos) /\ Remember("close", NoCard)
       ELSE Idle
    /\ UNCHANGED <<cards, pc, hasModal, boot, pageVars>>

\* The Escape listener closing whatever aria-hidden is.
EscapeCloses_Always == TRUE

\* modal.getAttribute('aria-hidden') === 'false' (line 424).
EscapeCloses == ariaHidden = "false"

\* The Escape key (lines 423-425); the handler does nothing unless the
\* overlay is open.
Escape ==
    /\ Loaded
    /\ pos < MaxHist
    /\ IF Listening /\ EscapeCloses
       THEN closeModal(FALSE, hist, pos) /\ Remember("close", NoCard)
       ELSE Idle
    /\ UNCHANGED <<cards, pc, hasModal, boot, pageVars>>

\* Browser back: the browser moves to the previous entry, then the popstate
\* listener runs (lines 445-452) if it is registered.
Back ==
    /\ Loaded
    /\ pos > 1
    /\ IF Listening
       THEN onPopstate(hist, pos - 1) /\ Remember("back", NoCard)
       ELSE pos' = pos - 1 /\ UNCHANGED <<dom, hist, log, hist0, pos0>>
    /\ UNCHANGED <<cards, pc, hasModal, boot, pageVars>>

\* Browser forward.
Forward ==
    /\ Loaded
    /\ pos < Len(hist)
    /\ IF Listening
       THEN onPopstate(hist, pos + 1) /\ Remember("forward", NoCard)
       ELSE pos' = pos + 1 /\ UNCHANGED <<dom, hist, log, hist0, pos0>>
    /\ UNCHANGED <<cards, pc, hasModal, boot, pageVars>>

\* ------------------------------------------------------------- navigation
NavGroups == {"desktop", "mobile"}
NavBtns == {"home", "about", "contact"}

\* handleNavClick clearing the buttons of both navigations.
handleNavClick_AllGroups(group, clickedBtn) ==
    [g \in NavGroups |-> [b \in NavBtns |->
        IF g = group /\ b = clickedBtn
        THEN [dataActive |-> "true", ariaCurrent |-> "page"]
        ELSE [dataActive |-> "false", ariaCurrent |-> ""]]]

\* The buttons after handleNavClick(clickedBtn, allBtns) (lines 45-54), allBtns
\* being the buttons of the group: all lose data-active and aria-current,
\* then the clicked one gets them.
handleNavClick(group, clickedBtn) ==
    [navAttrs EXCEPT ![group] = [b \in NavBtns |->
        IF b = clickedBtn
        THEN [dataActive |-> "true", ariaCurrent |-> "page"]
        ELSE [dataActive |-> "false", ariaCurrent |-> ""]]]

\* A navigation click that also records the section in the URL.
NavClick_PushesSection(group, btn) ==
    /\ HasRun("initializeNavigation")
    /\ events < MaxEvents
    /\ pos < MaxHist
    /\ events' = events + 1
    /\ navAttrs' = handleNavClick(group, btn)
    /\ lastNav' = [lastNav EXCEPT ![group] = btn]
    /\ PushState(hist, pos, <<>>, Search(hist, pos))
    /\ UNCHANGED <<cards, pc, hasModal, boot, dom, log, hist0, pos0, filterVars, flags,
                   resizeVars>>

\* A click on a navigation button (lines 29-37, 45-72).  The scrolling of
\* lines 57-71 moves the viewport only.
NavClick(group, btn) ==
    /\ HasRun("initializeNavigation")
    /\ events < MaxEvents
    /\ events' = events + 1
    /\ navAttrs' = handleNavClick(group, btn)
    /\ lastNav' = [lastNav EXCEPT ![group] = btn]
    /\ UNCHANGED <<cards, pc, hasModal, boot, modalVars, filterVars, flags, resizeVars>>

\* ------------------------------------------------------------------ filter
Chips == {"all", "web", "brand"}

\* data-cat of a chip.
ChipCat(chip) ==
    CASE chip = "all" -> <<"a","l","l">>
      [] chip = "web" -> <<"w","e","b">>
      [] chip = "brand" -> <<"b","r","a","n","d">>

\* data-cats of the cards; c3 has none.
CardCats ==
    [ c1 |-> <<"w","e","b">>,
      c2 |-> <<"b","r","a","n","d","i","n","g">>,
      c3 |-> <<>> ]

\* String.prototype.includes.
Includes(str, sub) ==
    \E i \in 1..(Len(str) + 1) :
        /\ i + Len(sub) - 1 <= Len(str)
        /\ SubSeq(str, i, i + Len(sub) - 1) = sub

\* filterCards shows the card for this category (lines 119-128).
Shown(card, cat) ==
    \/ cat = <<"a","l","l">>
    \/ CardCats[card] # <<>> /\ Includes(CardCats[card], cat)

\* showCard's synchronous part (lines 141-142).
showCard(v) == [v EXCEPT !.hidden = FALSE, !.display = ""]

\* hideCard's synchronous part (lines 156-157).
hideCard(v) == [v EXCEPT !.opacity = "0", !.transform = "scale(0.95)"]

\* The cards of CardOrder from index i on that the category hides.
RECURSIVE HiddenFrom(_, _)
HiddenFrom(i, cat) ==
    IF i > Len(CardOrder) THEN <<>>
    ELSE IF Shown(CardOrder[i], cat) THEN HiddenFrom(i + 1, cat)
    ELSE <<CardOrder[i]>> \o HiddenFrom(i + 1, cat)

\* A click on a chip (lines 81-83): handleCategoryFilter (lines 92-108), then
\* filterCards (lines 115-134), which shows or hides every card in document
\* order and reapplies the first-flag-only rule.
ChipClick(chip) ==
    /\ HasRun("initializeCategoryFiltering")
    /\ events < MaxEvents
    /\ events' = events + 1
    /\ chipAttrs' = [ch \in Chips |->
                        [active |-> ch = chip,
                         ariaPressed |-> IF ch = chip THEN "true" ELSE "false"]]
    /\ category' = chip
    /\ view' = [c \in Cards |->
                   IF Shown(c, ChipCat(chip)) THEN showCard(view[c]) ELSE hideCard(view[c])]
    /\ frames' = frames \cup {c \in Cards : Shown(c, ChipCat(chip))}
    /\ hideQueue' = hideQueue \o HiddenFrom(1, ChipCat(chip))
    /\ flags' = applyFirstFlagOnly(flags)
    /\ UNCHANGED <<cards, pc, hasModal, boot, modalVars, navVars, resizeVars>>

\* The oldest 200ms timer of hideCard expires (lines 160-163).
HideTimerFires ==
    /\ hideQueue # <<>>
    /\ view' = [view EXCEPT ![Head(hideQueue)] =
                    [@ EXCEPT !.display = "none", !.hidden = TRUE]]
    /\ hideQueue' = Tail(hideQueue)
    /\ UNCHANGED <<cards, pc, hasModal, boot, modalVars, navVars, chipAttrs,
                   category, frames, flags, resizeVars, events>>

\* An animation-frame callback of showCard runs (lines 145-148).
FrameFires(card) ==
    /\ card \in frames
    /\ view' = [view EXCEPT ![card] = [@ EXCEPT !.opacity = "1", !.transform = "scale(1)"]]
    /\ frames' = frames \ {card}
    /\ UNCHANGED <<cards, pc, hasModal, boot, modalVars, navVars, chipAttrs,
                   category, hideQueue, flags, resizeVars, events>>

\* ------------------------------------------------------------------ resize
\* The timers left pending by clearTimeout(id).
clearTimeout(id) == timers \ {id}

\* The resize listener without its clearTimeout.
ResizeTimers_NoClear(id) == timers \cup {id}

\* The pending resize timers once the listener has cleared
\* window.resizeTimeout and scheduled timer id (lines 216-217).
ResizeTimers(id) == clearTimeout(resizeTimeout) \cup {id}

\* A resize event (lines 214-229); counted tells whether it counts as one of
\* the page specification's events.
Resize(counted) ==
    /\ nextTimer <= MaxResize
    /\ IF counted
       THEN events < MaxEvents /\ events' = events + 1
       ELSE UNCHANGED events
    /\ timers' = ResizeTimers(nextTimer)
    /\ resizeTimeout' = nextTimer
    /\ nextTimer' = nextTimer + 1
    /\ burst' = burst + 1
    /\ UNCHANGED <<cards, pc, hasModal, boot, modalVars, navVars, filterVars, flags,
                   columnCount, reflowFrames, reflows>>

\* window.getComputedStyle(masonryContainer).columnCount: the inline value,
\* the style sheet's when there is none.
ComputedColumnCount == IF columnCount = "" THEN "sheet" ELSE columnCount

\* A resize timer expires after 250ms (lines 217-228): the reflow.
ResizeTimerFires ==
    /\ timers # {}
    /\ \E id \in timers : timers' = timers \ {id}
    /\ reflows' = reflows + 1
    /\ burst' = 0
    /\ columnCount' = "auto"
    /\ reflowFrames' = Append(reflowFrames, ComputedColumnCount)
    /\ UNCHANGED <<cards, pc, hasModal, boot, modalVars, navVars, filterVars, flags,
                   resizeTimeout, nextTimer, events>>

\* The animation-frame callback of the reflow runs (lines 224-226).
ReflowFrameFires ==
    /\ reflowFrames # <<>>
    /\ columnCount' = Head(reflowFrames)
    /\ reflowFrames' = Tail(reflowFrames)
    /\ UNCHANGED <<cards, pc, hasModal, boot, modalVars, navVars, filterVars, flags,
                   resizeTimeout, timers, nextTimer, reflows, burst, events>>

\* ------------------------------------------------------------ specification

\* The flags of the cards as the page is written: c1 has two and c2 one,
\* none of them hidden; c3 has none.
AuthoredFlag == [flagHidden |-> FALSE, ariaHidden |-> "", tabindex |-> ""]
PageFlags == [c1 |-> <<AuthoredFlag, AuthoredFlag>>, c2 |-> <<AuthoredFlag>>, c3 |-> <<>>]

\* The rest of the page as served: Home is the current button of both
\* navigations, the chip `all` is pressed, every card is displayed, no timer
\* is pending.
InitPage(fl) ==
    /\ boot = [ran |-> <<>>, raised |-> FALSE]
    /\ navAttrs = [g \in NavGroups |-> [b \in NavBtns |->
                      IF b = "home"
                      THEN [dataActive |-> "true", ariaCurrent |-> "page"]
                      ELSE [dataActive |-> "false", ariaCurrent |-> ""]]]
    /\ lastNav = [g \in NavGroups |-> "none"]
    /\ chipAttrs = [ch \in Chips |->
                      [active |-> ch = "all",
                       ariaPressed |-> IF ch = "all" THEN "true" ELSE "false"]]
    /\ category = "none"
    /\ view = [c \in Cards |->
                  [display |-> "", hidden |-> FALSE, opacity |-> "", transform |-> ""]]
    /\ hideQueue = <<>>
    /\ frames = {}
    /\ flags = fl
    /\ resizeTimeout = 0
    /\ timers = {}
    /\ nextTimer = 1
    /\ columnCount = ""
    /\ reflowFrames = <<>>
    /\ reflows = 0
    /\ burst = 0
    /\ events = 0

\* The page as served: the overlay hidden and empty, one history entry.
InitWith(cs, searches) ==
    /\ cards = cs
    /\ \E s \in searches : hist = << [state |-> <<"null">>, search |-> s] >>
    /\ pos = 1
    /\ ariaHidden = "true"
    /\ overflow = ""
    /\ titleText = ""
    /\ imgSrc = <<>>
    /\ imgAlt = ""
    /\ bubbles = <<>>
    /\ pc = "start"
    /\ log = <<>>
    /\ hist0 = hist
    /\ pos0 = 1
    /\ hasModal = TRUE
    /\ InitPage(PageFlags)

Init == InitWith(PageCards, LoadSearches)

Next ==
    \/ Boot
    \/ Load
    \/ \E card \in Cards : CardClick(card)
    \/ \E card \in Cards : CardKey(card)
    \/ \E inContent \in BOOLEAN : BackdropClick(inContent)
    \/ \E inContent \in BOOLEAN : CloseBtnClick(inContent)
    \/ \E inside \in BOOLEAN : ContentClick(inside)
    \/ Escape
    \/ Back
    \/ Forward

Spec == Init /\ [][Next]_vars

\* The page without #project-modal.  The session history holds up to MaxHist
\* entries of the same document and query string (fragment navigations), the
\* current one being any of them.
InitNoModal ==
    /\ cards = PageCards
    /\ \E s \in LoadSearches, k \in 1..MaxHist :
          /\ hist = [i \in 1..k |-> [state |-> <<"null">>, search |-> s]]
          /\ pos \in 1..k
    /\ ariaHidden = "true"
    /\ overflow = ""
    /\ titleText = ""
    /\ imgSrc = <<>>
    /\ imgAlt = ""
    /\ bubbles = <<>>
    /\ pc = "start"
    /\ log = <<>>
    /\ hist0 = hist
    /\ pos0 = pos
    /\ hasModal = FALSE
    /\ InitPage(PageFlags)

\* The events a page without overlay can receive.
NextNoModal ==
    \/ Boot
    \/ Load
    \/ \E card \in Cards : CardClick(card)
    \/ \E card \in Cards : CardKey(card)
    \/ Escape
    \/ Back
    \/ Forward

SpecNoModal == InitNoModal /\ [][NextNoModal]_vars

\* The flags a page may be written with: none hidden, or the first one of
\* the first card hidden.
FlagChoices ==
    { PageFlags,
      [PageFlags EXCEPT !.c1[1].flagHidden = TRUE] }

\* The page specification: the overlay is opened by the deep link or a card click
\* and closed by Escape, while navigation buttons and chips are clicked, the
\* window is resized and the timers and animation frames of these run.
InitWhole ==
    /\ cards = PageCards
    /\ hist = << [state |-> <<"null">>, search |-> <<"alpha">>] >>
    /\ pos = 1
    /\ ariaHidden = "true"
    /\ overflow = ""
    /\ titleText = ""
    /\ imgSrc = <<>>
    /\ imgAlt = ""
    /\ bubbles = <<>>
    /\ pc = "start"
    /\ log = <<>>
    /\ hist0 = hist
    /\ pos0 = 1
    /\ hasModal = TRUE
    /\ \E fl \in FlagChoices : InitPage(fl)

NextPage ==
    \/ Boot
    \/ Load
    \/ CardClick("c2")
    \/ Escape
    \/ \E g \in NavGroups, b \in NavBtns : NavClick(g, b)
    \/ \E ch \in Chips : ChipClick(ch)
    \/ HideTimerFires
    \/ \E card \in Cards : FrameFires(card)
    \/ Resize(TRUE)
    \/ ResizeTimerFires
    \/ ReflowFrameFires

SpecPage == InitWhole /\ [][NextPage]_vars

\* The resize specification: resize events, their timers and the reflow's
\* animation frames.  A pending timer expires and a requested frame runs.
NextResize ==
    \/ Boot
    \/ Resize(FALSE)
    \/ ResizeTimerFires
    \/ ReflowFrameFires

SpecResize ==
    /\ Init
    /\ [][NextResize]_vars
    /\ WF_vars(ResizeTimerFires)
    /\ WF_vars(ReflowFrameFires)

\* The badge specification: card c1 carries any data-tools list of at most
\* MaxTools entries and the page is loaded on c1's deep link; cards are then
\* opened by direct triggers.
InitTools ==
    \E l \in ToolLists(MaxTools) :
        InitWith([PageCards EXCEPT !.c1 = Card(<<"alpha">>, "Alpha", "alpha.png", "alpha-thumb.png", l)],
                 { <<"alpha">> })

NextTools ==
    \/ Boot
    \/ Load
    \/ \E card \in Cards : CardClick(card)
    \/ \E card \in Cards : CardKey(card)

SpecTools == InitTools /\ [][NextTools]_vars

\* =================================================================== claims
\* The overlay is open.
Open == ariaHidden = "false"

\* The project parameter of the current URL.
Param == Search(hist, pos)

\* The overlay's content is the one openFromCard writes for the card.
Shows(card) ==
    /\ titleText = TitleOf(card)
    /\ imgSrc = ImageOf(card)
    /\ imgAlt = TitleOf(card)
    /\ bubbles = BubblesOf(card)

\* Some card has a data-id attribute with this value.
HasCard(id) == \E c \in Cards : cards[c].dataId = <<id>>

\* Index of the most recent handler run in the log.
last == Len(log)
LastOp == IF log = <<>> THEN "init" ELSE log[last].op
LastCard == IF log = <<>> THEN NoCard ELSE log[last].card

\* The log ends with the given handler runs.
EndsWith(ops) ==
    /\ last >= Len(ops)
    /\ \A i \in 1..Len(ops) : log[last - Len(ops) + i].op = ops[i]

\* C1 (as stated): after a direct open or close the overlay is open iff the
\* URL has a project parameter, and when open the parameter is the id of the
\* card displayed.
C1_ParamIsCardId ==
    LastOp \in {"open", "close"} =>
        /\ Open <=> Param # <<>>
        /\ Open => \E c \in Cards : Shows(c) /\ Param = <<IdOf(c)>>

\* C1 (amended): after a direct open or close the overlay is open iff the URL
\* has a project parameter, and when open the parameter is the id of the card
\* displayed, or "p" when that card's id is empty.
C1_ParamIsCardIdOrP ==
    LastOp \in {"open", "close"} =>
        /\ Open <=> Param # <<>>
        /\ Open => \E c \in Cards :
                      /\ Shows(c)
                      /\ Param = << IF IdOf(c) = "" THEN "p" ELSE IdOf(c) >>

C1_Witness ==
    /\ LastOp = "open" /\ LastCard = "c3"
    /\ Open /\ Shows("c3") /\ Param = <<"p">>

\* C2 (as stated): after the popstate listener ran for a back or forward
\* step, the overlay is closed if the URL has no project parameter, and open
\* showing the card whose id is X if the URL has project=X.
C2_Replayed ==
    LastOp \in {"back", "forward"} =>
        /\ Param = <<>> => ~Open
        /\ Param # <<>> =>
              /\ Open
              /\ \E c \in Cards : cards[c].dataId = Param /\ Shows(c)

\* C3: a direct open of any card followed by a direct close leaves the URL
\* without project parameter and the overlay marked aria-hidden="true".
C3_OpenThenClose ==
    EndsWith(<<"open", "close">>) => Param = <<>> /\ ariaHidden = "true"

C3_Witness ==
    /\ EndsWith(<<"open", "close">>)
    /\ log[last - 1].card = "c2"
    /\ hist[pos - 1].search = <<"beta">>
    /\ Param = <<>>

\* The two entries pushed by two consecutive direct opens are the last two
\* of the history, on top of the entries up to the index the first started
\* at.
TwoNewEntries ==
    /\ pos = log[last - 1].pos0 + 2
    /\ Len(hist) = pos
    /\ hist0 = SubSeq(hist, 1, pos - 1)
    /\ hist[pos - 1].state = <<"project", IdOf(log[last - 1].card)>>
    /\ hist[pos].state = <<"project", IdOf(log[last].card)>>

\* C4 (as stated): opening A then B by direct triggers adds exactly two
\* history entries and leaves the project parameter equal to B's id.
C4_TwoEntriesUrlIsId ==
    EndsWith(<<"open", "open">>) =>
        TwoNewEntries /\ Param = <<IdOf(LastCard)>>

\* C4 (amended): opening A then B by direct triggers adds exactly two history
\* entries and leaves the project parameter equal to B's id, or to "p" when
\* B's id is empty.
C4_TwoEntriesUrlIsIdOrP ==
    EndsWith(<<"open", "open">>) =>
        /\ TwoNewEntries
        /\ Param = << IF IdOf(LastCard) = "" THEN "p" ELSE IdOf(LastCard) >>

C4_Witness ==
    /\ EndsWith(<<"open", "open">>)
    /\ log[last - 1].card = "c1" /\ LastCard = "c2"
    /\ log[last - 1].pos0 = 2 /\ pos = 4
    /\ Param = <<"beta">>

\* C5: loaded on project=X with a card whose data-id is X, the page
\* initialises with the overlay open on X's title, image and badges, and the
\* history is the one it was loaded with.
C5_DeepLinkOpens ==
    (LastOp = "load" /\ Param # <<>> /\ HasCard(Param[1])) =>
        /\ Open
        /\ \E c \in Cards : cards[c].dataId = Param /\ Shows(c)
        /\ hist = hist0 /\ pos = pos0 /\ Len(hist) = 1

C5_Witness ==
    /\ LastOp = "load" /\ Param = <<"alpha">>
    /\ Open /\ titleText = "Alpha" /\ imgSrc = <<"alpha.png">>
    /\ Len(bubbles) = 2

C7_BackReopens ==
    EndsWith(<<"open", "close", "open", "back">>) =>
        /\ Open
        /\ Shows(log[last - 3].card) \/ Shows(log[last - 1].card)
        /\ hist = hist0

\* C7 (amended): browser back after a direct open, close, open returns to the
\* entry the close pushed: the URL has no project parameter, the overlay ends
\* closed, and the back navigation pushes no history entry.
C7_BackLandsOnClose ==
    EndsWith(<<"open", "close", "open", "back">>) =>
        /\ Param = <<>> /\ hist[pos].state = <<>>
        /\ ariaHidden = "true"
        /\ hist = hist0 /\ pos = pos0 - 1

C7_Witness ==
    /\ EndsWith(<<"open", "close", "open", "back">>)
    /\ log[last - 3].card = "c1" /\ log[last - 1].card = "c2"
    /\ pos = 3 /\ Len(hist) = 4
    /\ ~Open

\* The badge class a data-tools entry stands for, "" when it stands for none.
ExpectedClass(entry) ==
    CASE entry \in { <<"P","S">>, <<" ","p","s","\t">>, <<"p","s"," ">> } -> "bubble-PS"
      [] entry \in { <<"A","i">>, <<" ","a","i">> } -> "bubble-AI"
      [] entry \in { <<"f","i","g","m","a">>, <<" ","F","i","g","m","a">> } -> "bubble-figma"
      [] entry = <<"B","l","e","n","d","e","r"," ">> -> "bubble-blender"
      [] entry = <<"p","r">> -> "bubble-PR"
      [] OTHER -> ""

IsClass(x) == x # ""

C9_PushesNewEntry ==
    LastOp \in {"open", "close"} =>
        /\ pos = pos0 + 1
        /\ Len(hist) = pos
        /\ SubSeq(hist, 1, pos0) = SubSeq(hist0, 1, pos0)
        /\ hist[pos] =
              IF LastOp = "open"
              THEN [ state  |-> <<"project", IdOf(LastCard)>>,
                     search |-> << IF IdOf(LastCard) = "" THEN "p" ELSE IdOf(LastCard) >> ]
              ELSE [ state |-> <<>>, search |-> <<>> ]

C9_Witness ==
    /\ LastOp = "open" /\ LastCard = "c3"
    /\ pos0 = 2 /\ Len(hist0) = 3
    /\ hist[pos] = [state |-> <<"project", "">>, search |-> <<"p">>]

\* C10: the popstate listener and the openFromUrl(false) of the page load
\* leave the history and the index the browser moved to as they are.
C10_HistoryEventsPushNothing ==
    /\ LastOp = "back" => hist = hist0 /\ pos = pos0 - 1
    /\ LastOp = "forward" => hist = hist0 /\ pos = pos0 + 1
    /\ LastOp = "load" => hist = hist0 /\ pos = pos0

C10_Witness ==
    /\ EndsWith(<<"open", "close", "back">>)
    /\ Open /\ Shows("c1")
    /\ pos = 2 /\ Len(hist) = 3

\* C11 (as stated): every step of the page-load listeners runs and none
\* raises.
C11_NothingRaises ==
    pc # "start" => ~boot.raised /\ boot.ran = InitSteps

\* C12: without #project-modal the controller does nothing: whatever card
\* clicks, keys and back/forward steps happen, the history keeps the entries
\* it was loaded with, the URL keeps its query string, no handler of the
\* controller has run and the page scroll is not suppressed.
C12_NoModalNoOp ==
    ~hasModal =>
        /\ hist = hist0 /\ Param = hist0[pos0].search
        /\ log = <<>>
        /\ overflow = "" /\ ariaHidden = "true"
        /\ titleText = "" /\ imgSrc = <<>> /\ bubbles = <<>>

C12_Witness ==
    /\ ~hasModal /\ pc = "idle"
    /\ Param = <<"alpha">>
    /\ Len(hist) = 3 /\ pos0 = 3 /\ pos = 1

\* The first-flag-only rule: in every card, the first flag is visible and
\* every other flag is hidden.
FirstFlagRule ==
    \A c \in Cards : \A i \in 1..Len(flags[c]) :
        flags[c][i] = IF i = 1
                      THEN [flagHidden |-> FALSE, ariaHidden |-> "", tabindex |-> "0"]
                      ELSE [flagHidden |-> TRUE, ariaHidden |-> "true", tabindex |-> "-1"]

\* C13 (as stated): once the page-load listeners have run, and after every
\* category filter, the first-flag-only rule holds.
C13_FirstFlagOnly == pc # "start" => FirstFlagRule

\* C14: an open, whether the overlay was closed or showing another card,
\* leaves the overlay open with exactly the title, image and badges of the
\* card opened last.
C14_LastWriteWins ==
    LastOp = "open" =>
        /\ Open /\ overflow = "hidden"
        /\ Shows(LastCard)
        /\ Len(bubbles) = Len(BubblesOf(LastCard))

C14_Witness ==
    /\ EndsWith(<<"open", "open">>)
    /\ log[last - 1].card = "c1" /\ LastCard = "c3"
    /\ titleText = "Gamma" /\ imgSrc = <<"gamma-thumb.png">> /\ bubbles = <<>>

\* C15: at most one resize timer is pending, and it is the one scheduled
\* last; each resize event leaves exactly the timer it scheduled; the reflow
\* runs only at the end of a burst of resize events, once for the burst and
\* with no timer left behind; and a burst is eventually followed by its
\* reflow.
C15_Debounce ==
    /\ [](/\ Cardinality(timers) <= 1
          /\ timers # {} => timers = {resizeTimeout}
          /\ burst > 0 <=> timers # {})
    /\ [][nextTimer' # nextTimer => timers' = {nextTimer} /\ burst' = burst + 1]_vars
    /\ [][reflows' # reflows =>
            /\ burst > 0 /\ burst' = 0
            /\ reflows' = reflows + 1
            /\ timers' = {}]_vars
    /\ (burst > 0) ~> (burst = 0 /\ timers = {})

C15_Witness ==
    /\ nextTimer = 4 /\ resizeTimeout = 3
    /\ reflows = 1 /\ burst = 0 /\ timers = {}
    /\ columnCount = "sheet" /\ reflowFrames = <<>>

\* The URL has a non-empty project parameter that is the data-id of a card.
Matches(search) == search # <<>> /\ search[1] # "" /\ HasCard(search[1])

\* C16: openFromUrl returns true exactly when the URL has a non-empty
\* project parameter that is the data-id of a card.  Whenever it runs, on
\* the page load or on a back/forward navigation to a URL with a project
\* parameter, it opens that card if there is one, and otherwise leaves the
\* overlay, its content, the scroll lock and the history as they were, at
\* the URL the browser is on.
C16_OpenFromUrl ==
    /\ [](openFromUrlResult(Param) <=> Matches(Param))
    /\ [][(/\ log' # log
           /\ LastOp' = "load" \/ (LastOp' \in {"back", "forward"} /\ Param' # <<>>))
          => /\ hist' = hist
             /\ pos' = (CASE LastOp' = "load" -> pos
                          [] LastOp' = "back" -> pos - 1
                          [] LastOp' = "forward" -> pos + 1)
             /\ IF Matches(Param')
                THEN /\ Open'
                     /\ \E c \in Cards :
                            /\ cards[c].dataId = Param'
                            /\ titleText' = TitleOf(c) /\ imgAlt' = TitleOf(c)
                            /\ imgSrc' = ImageOf(c)
                            /\ bubbles' = BubblesOf(c)
                ELSE UNCHANGED dom]_vars

C16_Witness ==
    /\ EndsWith(<<"open", "open", "back">>)
    /\ log[last - 2].card = "c3" /\ log[last - 1].card = "c1"
    /\ Param = <<"p">> /\ ~openFromUrlResult(Param)
    /\ Open /\ Shows("c1")

\* C17: while the overlay is not open, an Escape keypress changes nothing,
\* and a back or forward navigation to a URL without project parameter
\* leaves the overlay, its content, the scroll lock and the history stack as
\* they were, on the entry the browser moved to.
C17_ClosedStaysClosed ==
    /\ [][(~Open /\ Escape) => UNCHANGED <<dom, hist, pos>>]_vars
    /\ [][(~Open /\ (Back \/ Forward) /\ Param' = <<>>) =>
            /\ UNCHANGED <<dom, hist>>
            /\ pos' \in {pos - 1, pos + 1}]_vars

C17_Witness ==
    /\ EndsWith(<<"open", "close", "back", "back">>)
    /\ log[last - 3].card = "c3"
    /\ Len(hist) = 3 /\ pos = 1 /\ Param = <<>>
    /\ ariaHidden = "true" /\ overflow = ""

\* The attributes of a navigation button as the page is written.
AuthoredNav(b) ==
    IF b = "home"
    THEN [dataActive |-> "true", ariaCurrent |-> "page"]
    ELSE [dataActive |-> "false", ariaCurrent |-> ""]

\* C19: in a group where a button has been clicked, the button clicked last
\* has data-active 'true' and aria-current 'page' and every other button has
\* data-active 'false' and no aria-current; a group where none has been
\* clicked has its buttons as written, whatever was clicked in the other.
C19_ActiveIsLastClicked ==
    \A g \in NavGroups : \A b \in NavBtns :
        navAttrs[g][b] =
            IF lastNav[g] = "none" THEN AuthoredNav(b)
            ELSE IF b = lastNav[g]
                 THEN [dataActive |-> "true", ariaCurrent |-> "page"]
                 ELSE [dataActive |-> "false", ariaCurrent |-> ""]

C19_Witness ==
    /\ events = 2 /\ category = "none" /\ nextTimer = 1
    /\ lastNav = [desktop |-> "contact", mobile |-> "none"]
    /\ navAttrs["desktop"]["contact"].ariaCurrent = "page"
    /\ navAttrs["desktop"]["home"].dataActive = "false"
    /\ navAttrs["mobile"]["home"].ariaCurrent = "page"

\* A step of the page outside the overlay's controller: a navigation click,
\* a chip click with its first-flag-only pass, a hide timer, an animation
\* frame, a resize event or its timer.
PageStep ==
    \/ \E g \in NavGroups, b \in NavBtns : NavClick(g, b)
    \/ \E ch \in Chips : ChipClick(ch)
    \/ HideTimerFires
    \/ \E card \in Cards : FrameFires(card)
    \/ Resize(TRUE)
    \/ ResizeTimerFires
    \/ ReflowFrameFires

\* C18: navigation clicks, chip clicks, hide timers, animation frames and
\* resize handling leave the overlay's aria-hidden, the scroll lock, the
\* displayed title, image and badges, the URL and the history stack as they
\* are.
C18_PageLeavesModalAlone ==
    [][PageStep => UNCHANGED <<ariaHidden, overflow, titleText, imgSrc, imgAlt, bubbles,
                               hist, pos>>]_vars

C18_Witness ==
    /\ Open /\ Shows("c1") /\ Param = <<"alpha">> /\ Len(hist) = 1
    /\ lastNav["mobile"] = "about"
    /\ category = "web" /\ hideQueue = <<>> /\ view["c2"].hidden
    /\ FirstFlagRule
    /\ reflows = 1 /\ reflowFrames = <<>>

\* C20 (as stated): once no hide timer and no animation frame is pending, a
\* card is hidden (display none, class hidden) exactly if the category
\* selected last is not 'all' and the card's data-cats does not contain it.
C20_VisibilityMatchesCategory ==
    (category # "none" /\ hideQueue = <<>> /\ frames = {}) =>
        \A c \in Cards :
            (view[c].display = "none" /\ view[c].hidden) <=> ~Shown(c, ChipCat(category))

\* C21 (as stated): after a back or forward navigation onto an entry that
\* the open of a card pushed (its state payload records the card's id), the
\* overlay is open and shows that card.
C21_PushedEntryReplays ==
    (LastOp \in {"back", "forward"} /\ Len(hist[pos].state) = 2) =>
        /\ Open
        /\ \E c \in Cards : IdOf(c) = hist[pos].state[2] /\ Shows(c)

\* C22 (as stated): a close gesture adds one history entry and a close
\* request while the overlay is closed adds none, so every project-less
\* entry pushed by closeModal directly follows an entry with a project
\* parameter, never another project-less entry.
C22_OneEntryPerClose ==
    \A i \in 2..Len(hist) : hist[i].state = <<>> => hist[i - 1].search # <<>>

\* C23: in every state, before and after any opens, closes and back/forward
\* navigations, document.body's overflow is 'hidden' exactly when the
\* overlay's aria-hidden is 'false', and '' otherwise.
C23_ScrollLockTracksOverlay ==
    /\ overflow = "hidden" <=> ariaHidden = "false"
    /\ overflow \in {"", "hidden"}

C23_Witness ==
    /\ EndsWith(<<"open", "close", "back", "forward">>)
    /\ log[last - 3].card = "c1"
    /\ ariaHidden = "true" /\ overflow = ""
    /\ Param = <<>> /\ pos = Len(hist)

====
